---------------------------- MODULE Spec2Model ----------------------------
(***************************************************************************)
(* A model of the paperscraper MCP server (paperscraper/mcp_server.py and  *)
(* its launch scripts).  The server reads one request at a time from the   *)
(* stdio transport, dispatches tools/call requests by name to one of eight *)
(* handlers, and writes one response frame per request.                    *)
(*                                                                         *)
(* Texts are modelled as sequences of lines, a line as the sequence of the *)
(* pieces an f-string puts together (literals and formatted values), so    *)
(* that "the line starts with", "the line is numbered" and "the text ends  *)
(* with" are statements about sequences.  Python mappings are modelled as  *)
(* records with a field `has` holding the keys that are present.           *)
(***************************************************************************)
EXTENDS Integers, Sequences, FiniteSets, TLC

(***************************************************************************)
(* Bounds of the model.                                                    *)
(***************************************************************************)
\* the largest number of records a single-source search collaborator stages
MaxRecords == 12
\* the largest number of records a preprint-server querier stages
MaxPerServer == 6
\* the longest list a caller passes as `servers` to search_preprint_servers
MaxServers == 2
\* the largest record count drawn in the whole-server specification
MaxCoarse == 1
\* the largest number of dump files on disk for one preprint server
MaxDumps == 2
\* the largest number of tool calls the event loop is given
MaxTasks == 3

(***************************************************************************)
(* Program constants.                                                      *)
(***************************************************************************)
\* results[:10] in the single-source handlers
SingleSourceCap == 10
\* results[:5] in search_preprint_servers
PreprintCap == 5
DefaultMaxResultsPubmed == 100
DefaultMaxResultsArxiv == 100
DefaultMaxResultsScholar == 50
DefaultThreshold == 85
DefaultMinImpact == 0

(***************************************************************************)
(* Small helpers on sequences.                                             *)
(***************************************************************************)
Range(s) == {s[i] : i \in 1..Len(s)}

Min(a, b) == IF a < b THEN a ELSE b

RECURSIVE Flatten(_)
\* the concatenation of a sequence of sequences
Flatten(ss) == IF ss = <<>> THEN <<>> ELSE Head(ss) \o Flatten(Tail(ss))

RECURSIVE SumSeq(_)
SumSeq(s) == IF s = <<>> THEN 0 ELSE Head(s) + SumSeq(Tail(s))

\* all sequences over S of length at most n
SeqsUpTo(S, n) == UNION {[1..k -> S] : k \in 0..n}

(***************************************************************************)
(* Tool catalog: the names handle_list_tools advertises, in order.         *)
(***************************************************************************)
handle_list_tools_swapped ==
    << "search_arxiv", "search_pubmed", "search_scholar",
       "search_preprint_servers", "get_citations", "search_journal_impact",
       "download_paper_pdf", "update_preprint_dumps" >>

handle_list_tools ==
    << "search_pubmed", "search_arxiv", "search_scholar",
       "search_preprint_servers", "get_citations", "search_journal_impact",
       "download_paper_pdf", "update_preprint_dumps" >>

\* names a caller may send that no branch of handle_call_tool matches
UnknownNames == {"bogus_tool", "search_PubMed", ""}

RequestNames == Range(handle_list_tools) \cup UnknownNames

(***************************************************************************)
(* Python values.                                                          *)
(***************************************************************************)
\* str(KeyError(k)): the key's repr, in quotes
KeyErrorStr(k) == "'" \o k \o "'"

\* the message of an exception a collaborator raises
CollaboratorMessage == "backend unavailable"

\* a TextContent(type="text", text=...) block; text is a sequence of lines
TextContent(lines) == [type |-> "text", text |-> lines]

(***************************************************************************)
(* Records staged by a search collaborator (load_jsonl's result).          *)
(***************************************************************************)
PaperKeys == {"title", "authors", "journal", "date", "doi", "url", "citations"}

Shapes == {"full", "bare", "blank"}

\* the i-th record a stub collaborator stages: every field present ("full"),
\* no field present ("bare"), or every field present with the optional
\* identifiers empty ("blank")
StagedPaper(i, shape) ==
    [ has       |-> IF shape = "bare" THEN {} ELSE PaperKeys,
      title     |-> "title" \o ToString(i),
      authors   |-> "authors" \o ToString(i),
      journal   |-> "journal" \o ToString(i),
      date      |-> "2024",
      doi       |-> IF shape = "full" THEN "10.1/p" \o ToString(i) ELSE "",
      url       |-> IF shape = "full" THEN "http://p" \o ToString(i) ELSE "",
      citations |-> IF shape = "full" THEN ToString(i) ELSE "" ]

StagedPapers(n, shape) == [i \in 1..n |-> StagedPaper(i, shape)]

\* paper.get(key, default)
PaperGet(paper, key, default) ==
    IF key \in paper.has THEN paper[key] ELSE default

\* the truth value of paper.get(key)
PaperHas(paper, key) == key \in paper.has /\ paper[key] # ""

(***************************************************************************)
(* Tool arguments: a Python dict.  `has` is the set of keys present; the   *)
(* value of an absent key is never read.                                   *)
(***************************************************************************)
\* a file name or path: absolute or relative, and its components
Path(abs, parts) == [abs |-> abs, parts |-> parts]

NoArguments ==
    [ has          |-> {},
      query        |-> "",
      topic        |-> "",
      max_results  |-> 0,
      servers      |-> <<>>,
      title        |-> "",
      doi          |-> <<>>,
      filename     |-> Path(FALSE, <<>>),
      journal_name |-> "",
      threshold    |-> 0,
      min_impact   |-> 0,
      max_impact   |-> 0,
      start_date   |-> "",
      end_date     |-> "" ]

\* arguments.get(key, default)
ArgGet(arguments, key, default) ==
    IF key \in arguments.has THEN arguments[key] ELSE default

\* the truth value of arguments.get(key) for a string-valued key
ArgTruthy(arguments, key) ==
    key \in arguments.has /\ arguments[key] # ""

\* arguments.get("doi") is not None
DoiPresent(arguments) == "doi" \in arguments.has

\* the truth value of arguments.get("doi"): a DOI present and not empty
DoiTruthy(arguments) ==
    "doi" \in arguments.has /\ Len(arguments.doi) > 0

\* str() of an optional string argument: the value, or None when absent
ArgStr(arguments, key) ==
    IF key \in arguments.has THEN arguments[key] ELSE "None"

(***************************************************************************)
(* A DOI is modelled by its segments between "/" characters; the empty     *)
(* string has no segment.                                                  *)
(***************************************************************************)
RECURSIVE Join(_, _)
\* sep.join(segments)
Join(segments, sep) ==
    IF segments = <<>> THEN ""
    ELSE IF Len(segments) = 1 THEN segments[1]
    ELSE segments[1] \o sep \o Join(Tail(segments), sep)

\* the DOI as the caller wrote it
DoiStr(doi) == Join(doi, "/")

\* f"{doi.replace('/', '_')}.pdf"
default_filename(doi) == Path(FALSE, <<Join(doi, "_") \o ".pdf">>)

(***************************************************************************)
(* Paths (os.path).                                                        *)
(***************************************************************************)
\* os.path.join(temp_dir, filename)
os_path_join(temp_dir, filename) ==
    IF filename.abs THEN filename
    ELSE Path(TRUE, temp_dir.parts \o filename.parts)

RECURSIVE Resolve(_, _)
\* the components of a path once "." and ".." are resolved, left to right
Resolve(parts, stack) ==
    IF parts = <<>> THEN stack
    ELSE IF Head(parts) = "." THEN Resolve(Tail(parts), stack)
    ELSE IF Head(parts) = ".."
         THEN Resolve(Tail(parts),
                      IF stack = <<>> THEN <<>>
                      ELSE SubSeq(stack, 1, Len(stack) - 1))
    ELSE Resolve(Tail(parts), Append(stack, Head(parts)))

\* the file an absolute path names
Location(path) == Resolve(path.parts, <<>>)

\* whether the file at `location` lies in directory `dir` or below it
Inside(location, dir) ==
    /\ Len(location) > Len(dir)
    /\ SubSeq(location, 1, Len(dir)) = dir

PathStr(path) == (IF path.abs THEN "/" ELSE "") \o Join(path.parts, "/")

\* the directory tempfile puts its files and directories in
TempRoot == <<"tmp">>

(***************************************************************************)
(* What one handler invocation did: its result (returned blocks, or an     *)
(* exception with str(e) = msg), the collaborators it invoked, the temp    *)
(* files it created (made) and the ones alive when it ended (live), the    *)
(* paths it asked the PDF collaborator to write (asked), the temporary     *)
(* directories it created (dirs), the files on disk when it ended (files)  *)
(* and the handler coroutine that ran.                                     *)
(***************************************************************************)
Effect(live, files) ==
    [ handler |-> "none",
      raised  |-> FALSE,
      msg     |-> <<>>,
      blocks  |-> <<>>,
      calls   |-> <<>>,
      made    |-> <<>>,
      live    |-> live,
      asked   |-> <<>>,
      dirs    |-> <<>>,
      files   |-> files ]

Enter(e, handler) == [e EXCEPT !.handler = handler]

\* return [TextContent(type="text", text=...)]
Return(e, lines) == [e EXCEPT !.blocks = <<TextContent(lines)>>]

\* an exception leaves the handler; msg is str(e)
Raise(e, msg) == [e EXCEPT !.raised = TRUE, !.msg = msg]

\* a collaborator invocation
Call(fn, target, pos, kw) ==
    [fn |-> fn, target |-> target, pos |-> pos, kw |-> kw]

\* a collaborator invocation's outcome: it returns ("ok", staging n records
\* of a shape), raises ("raise"), or returns without a usable result ("bad":
\* the staged file does not load, the download reports failure)
Outcome(kind, n, shape) == [kind |-> kind, n |-> n, shape |-> shape]

\* the name of the file tempfile.NamedTemporaryFile creates: one that does
\* not exist yet
NamedTemporaryFile(live) ==
    LET name(k) == "tmp" \o ToString(k) \o ".jsonl"
        k == CHOOSE j \in 1..(Cardinality(live) + 1) :
                 /\ name(j) \notin live
                 /\ \A i \in 1..(j - 1) : name(i) \in live
    IN  name(k)

\* the finally block of the search handlers, which runs whether the try
\* block failed or not: if os.path.exists(temp_file): os.unlink(temp_file)
release_temp_on_success(live, temp_file, failed) ==
    IF failed THEN live ELSE live \ {temp_file}

release_temp(live, temp_file, failed) == live \ {temp_file}

(***************************************************************************)
(* Rendering of the single-source searches.                                *)
(***************************************************************************)
SourceName(tool) ==
    CASE tool = "search_pubmed"  -> "PubMed"
      [] tool = "search_arxiv"   -> "arXiv"
      [] tool = "search_scholar" -> "Google Scholar"

\* results[:cap]
FirstN(results, cap) == SubSeq(results, 1, Min(Len(results), cap))

Optional(cond, line) == IF cond THEN <<line>> ELSE <<>>

\* the lines the loop body adds for enumerate index i (from 0) and a record
entry_lines(tool, i, paper) ==
    CASE tool = "search_pubmed" ->
           << <<ToString(i + 1), ". ", PaperGet(paper, "title", "No title")>>,
              <<"   Authors: ", PaperGet(paper, "authors", "Unknown")>>,
              <<"   Journal: ", PaperGet(paper, "journal", "Unknown")>>,
              <<"   Year: ", PaperGet(paper, "date", "Unknown")>> >>
           \o Optional(PaperHas(paper, "doi"), <<"   DOI: ", paper.doi>>)
           \o << <<>> >>
      [] tool = "search_arxiv" ->
           << <<ToString(i + 1), ". ", PaperGet(paper, "title", "No title")>>,
              <<"   Authors: ", PaperGet(paper, "authors", "Unknown")>>,
              <<"   Published: ", PaperGet(paper, "date", "Unknown")>> >>
           \o Optional(PaperHas(paper, "doi"), <<"   DOI: ", paper.doi>>)
           \o Optional(PaperHas(paper, "url"), <<"   URL: ", paper.url>>)
           \o << <<>> >>
      [] tool = "search_scholar" ->
           << <<ToString(i + 1), ". ", PaperGet(paper, "title", "No title")>>,
              <<"   Authors: ", PaperGet(paper, "authors", "Unknown")>>,
              <<"   Year: ", PaperGet(paper, "date", "Unknown")>> >>
           \o Optional(PaperHas(paper, "citations"),
                       <<"   Citations: ", paper.citations>>)
           \o << <<>> >>

\* the records the loop renders: results[:10]
shown_results(results) == FirstN(results, SingleSourceCap)

\* if len(results) > 10: response += f"... and {len(results) - 10} more results\n"
more_results_line_at_cap(results) ==
    IF Len(results) >= SingleSourceCap
    THEN << <<"... and ", ToString(Len(results) - SingleSourceCap),
              " more results">> >>
    ELSE <<>>

more_results_line(results) ==
    IF Len(results) > SingleSourceCap
    THEN << <<"... and ", ToString(Len(results) - SingleSourceCap),
              " more results">> >>
    ELSE <<>>

\* the response text of a single-source search
render_search(tool, results) ==
    LET shown == shown_results(results)
    IN  << <<"Found ", ToString(Len(results)), " papers in ", SourceName(tool)>>,
           <<>> >>
        \o Flatten([k \in 1..Len(shown) |-> entry_lines(tool, k - 1, shown[k])])
        \o more_results_line(results)

\* str(e) of the exception load_jsonl raises on a file it cannot read
LoadMessage == "cannot load staged records"

\* the part the three single-source handlers share: create the staging
\* file, invoke the collaborator with output_filepath=temp_file, load and
\* render, and release the file
staged_search(tool, call, out, e) ==
    LET temp_file == NamedTemporaryFile(e.live)
        e1 == [e EXCEPT !.made  = Append(@, temp_file),
                        !.live  = @ \cup {temp_file},
                        !.calls = Append(@, [call EXCEPT !.kw = @ \cup
                                     {<<"output_filepath", temp_file>>}])]
        e2 == CASE out.kind = "raise" -> Raise(e1, <<CollaboratorMessage>>)
                [] out.kind = "bad"   -> Raise(e1, <<LoadMessage>>)
                [] OTHER -> Return(e1, render_search(
                                tool, StagedPapers(out.n, out.shape)))
    IN  [e2 EXCEPT !.live = release_temp(@, temp_file, out.kind # "ok")]

search_pubmed(arguments, outs, e0) ==
    LET e == Enter(e0, "search_pubmed") IN
    IF "query" \notin arguments.has THEN Raise(e, <<KeyErrorStr("query")>>)
    ELSE
      LET max_results == ArgGet(arguments, "max_results", DefaultMaxResultsPubmed)
          call ==
              Call("get_and_dump_pubmed_papers", "", <<arguments.query>>,
                   { <<"max_results", ToString(max_results)>> })
      IN  staged_search("search_pubmed", call, outs[1], e)

search_arxiv(arguments, outs, e0) ==
    LET e == Enter(e0, "search_arxiv") IN
    IF "query" \notin arguments.has THEN Raise(e, <<KeyErrorStr("query")>>)
    ELSE
      LET max_results == ArgGet(arguments, "max_results", DefaultMaxResultsArxiv)
          call ==
              Call("get_and_dump_arxiv_papers", "", <<arguments.query>>,
                   { <<"max_results", ToString(max_results)>> })
      IN  staged_search("search_arxiv", call, outs[1], e)

search_scholar(arguments, outs, e0) ==
    LET e == Enter(e0, "search_scholar") IN
    IF "topic" \notin arguments.has THEN Raise(e, <<KeyErrorStr("topic")>>)
    ELSE
      LET max_results == ArgGet(arguments, "max_results", DefaultMaxResultsScholar)
          call ==
              Call("get_and_dump_scholar_papers", "", <<arguments.topic>>,
                   {})
      IN  staged_search("search_scholar", call, outs[1], e)

(***************************************************************************)
(* search_preprint_servers.                                                *)
(***************************************************************************)
DefaultServers == <<"biorxiv", "medrxiv", "chemrxiv">>

\* the keys QUERY_FN_DICT holds before any dump is loaded
BuiltinQueryFns == {"arxiv", "pubmed"}

\* the servers whose querier comes from a local dump
DumpServers == <<"biorxiv", "chemrxiv", "medrxiv">>

\* the callable QUERY_FN_DICT[server]
QueryFn(server) ==
    CASE server = "arxiv"  -> "get_and_dump_arxiv_papers"
      [] server = "pubmed" -> "get_and_dump_pubmed_papers"
      [] OTHER             -> "XRXivQuery.search_keywords"

\* server.upper()
Upper(server) ==
    CASE server = "biorxiv"  -> "BIORXIV"
      [] server = "medrxiv"  -> "MEDRXIV"
      [] server = "chemrxiv" -> "CHEMRXIV"
      [] server = "arxiv"    -> "ARXIV"
      [] server = "pubmed"   -> "PUBMED"
      [] server = "zenodo"   -> "ZENODO"

\* if server in QUERY_FN_DICT
queried_always(server, QUERY_FN_DICT) == TRUE

queried(server, QUERY_FN_DICT) == server \in QUERY_FN_DICT

preprint_entry_lines(i, paper) ==
    << <<"  ", ToString(i + 1), ". ", PaperGet(paper, "title", "No title")>>,
       <<"     Authors: ", PaperGet(paper, "authors", "Unknown")>>,
       <<"     Date: ", PaperGet(paper, "date", "Unknown")>> >>
    \o Optional(PaperHas(paper, "doi"), <<"     DOI: ", paper.doi>>)
    \o << <<>> >>

\* the lines one queried server adds to the response
preprint_section(server, results) ==
    LET shown == FirstN(results, PreprintCap)
    IN  << <<>>,
           <<Upper(server), ": Found ", ToString(Len(results)), " papers">> >>
        \o Flatten([k \in 1..Len(shown) |-> preprint_entry_lines(k - 1, shown[k])])

\* len(all_results) in the first line of the response
reported_total(servers, all_results) == Len(all_results)

RECURSIVE preprint_loop(_, _, _, _, _)
\* for server in servers: ...  st holds the effect so far, all_results and
\* response; the loop ends early when an exception leaves the try block
preprint_loop(servers, outs, query, QUERY_FN_DICT, st) ==
    IF servers = <<>> THEN st
    ELSE
      LET server == Head(servers) IN
      IF ~queried(server, QUERY_FN_DICT)
      THEN preprint_loop(Tail(servers), outs, query, QUERY_FN_DICT, st)
      ELSE
        LET out == Head(outs)
            temp_file == NamedTemporaryFile(st.e.live)
            e1 == [st.e EXCEPT
                     !.made  = Append(@, temp_file),
                     !.live  = @ \cup {temp_file},
                     !.calls = Append(@, Call(QueryFn(server), server, <<query>>,
                                              {<<"output_filepath", temp_file>>}))]
            e2 == [e1 EXCEPT !.live = release_temp(@, temp_file, out.kind # "ok")]
            results == StagedPapers(out.n, out.shape)
        IN  CASE out.kind = "raise" ->
                   [st EXCEPT !.e = Raise(e2, <<CollaboratorMessage>>)]
              [] out.kind = "bad" ->
                   [st EXCEPT !.e = Raise(e2, <<LoadMessage>>)]
              [] OTHER ->
                   preprint_loop(Tail(servers), Tail(outs), query, QUERY_FN_DICT,
                       [ e           |-> e2,
                         all_results |-> st.all_results \o results,
                         response    |-> st.response
                                         \o preprint_section(server, results) ])

search_preprint_servers(arguments, outs, e0, QUERY_FN_DICT) ==
    LET e == Enter(e0, "search_preprint_servers") IN
    IF "query" \notin arguments.has THEN Raise(e, <<KeyErrorStr("query")>>)
    ELSE
      LET servers == ArgGet(arguments, "servers", DefaultServers)
          st == preprint_loop(servers, outs, arguments.query, QUERY_FN_DICT,
                              [e |-> e, all_results |-> <<>>, response |-> <<>>])
      IN  IF st.e.raised THEN st.e
          ELSE Return(st.e,
                 << <<"Total papers found across ", ToString(Len(servers)),
                      " servers: ",
                      ToString(reported_total(servers, st.all_results))>> >>
                 \o st.response)

(***************************************************************************)
(* get_citations.                                                          *)
(***************************************************************************)
get_citations(arguments, outs, e0) ==
    LET e == Enter(e0, "get_citations") IN
    IF DoiTruthy(arguments)
    THEN LET e1 == [e EXCEPT !.calls = Append(@,
                       Call("get_citations_by_doi", "",
                            <<DoiStr(arguments.doi)>>, {}))]
         IN  IF outs[1].kind = "raise"
             THEN Return(e1, << <<"Error retrieving citations: ",
                                  CollaboratorMessage>> >>)
             ELSE Return(e1, << <<"Citations for DOI ", DoiStr(arguments.doi),
                                  ": ", ToString(outs[1].n)>> >>)
    ELSE IF ArgTruthy(arguments, "title")
    THEN LET e1 == [e EXCEPT !.calls = Append(@,
                       Call("get_citations_from_title", "",
                            <<arguments.title>>, {}))]
         IN  IF outs[1].kind = "raise"
             THEN Return(e1, << <<"Error retrieving citations: ",
                                  CollaboratorMessage>> >>)
             ELSE Return(e1, << <<"Citations for '", arguments.title, "': ",
                                  ToString(outs[1].n)>> >>)
    ELSE Return(e, << <<"Error: Either title or DOI must be provided">> >>)

(***************************************************************************)
(* search_journal_impact.                                                  *)
(***************************************************************************)
\* the bullet character U+2022
Bullet == "(U+2022) "

\* the entries impactor.search returns
ImpactResults(n) ==
    [i \in 1..n |-> [journal |-> "journal" \o ToString(i),
                     factor  |-> ToString(i),
                     score   |-> "90"]]

impact_result_lines(result) ==
    << <<Bullet, result.journal>>,
       <<"  Impact Factor: ", result.factor>>,
       <<"  Match Score: ", result.score, "%">>,
       <<>> >>

search_journal_impact(arguments, outs, e0) ==
    LET e == Enter(e0, "search_journal_impact") IN
    IF "journal_name" \notin arguments.has
    THEN Raise(e, <<KeyErrorStr("journal_name")>>)
    ELSE
      LET journal_name == arguments.journal_name
          threshold == ArgGet(arguments, "threshold", DefaultThreshold)
          min_impact == ArgGet(arguments, "min_impact", DefaultMinImpact)
          \* if max_impact: a value that is absent or 0 is not passed
          search_args ==
              { <<"threshold", ToString(threshold)>>,
                <<"min_impact", ToString(min_impact)>> }
              \cup (IF "max_impact" \in arguments.has /\ arguments.max_impact # 0
                    THEN {<<"max_impact", ToString(arguments.max_impact)>>}
                    ELSE {})
          e1 == [e EXCEPT !.calls = Append(@,
                    Call("Impactor.search", "", <<journal_name>>, search_args))]
          results == IF outs[1].kind = "ok" THEN ImpactResults(outs[1].n) ELSE <<>>
      IN  IF outs[1].kind = "raise"
          THEN Return(e1, << <<"Error searching journal impact: ",
                               CollaboratorMessage>> >>)
          ELSE IF results = <<>>
          THEN Return(e1, << <<"No journals found matching '", journal_name,
                               "'">> >>)
          ELSE Return(e1,
                 << <<"Found ", ToString(Len(results)),
                      " journal(s) matching '", journal_name, "':">>,
                    <<>> >>
                 \o Flatten([k \in 1..Len(results) |->
                               impact_result_lines(results[k])]))

(***************************************************************************)
(* download_paper_pdf.                                                     *)
(***************************************************************************)
\* the directory tempfile.TemporaryDirectory() creates
TemporaryDirectory == Path(TRUE, TempRoot \o <<"tmpdir0">>)

\* leaving the with block removes the directory and everything below it
remove_tree(files, temp_dir) ==
    {f \in files : ~Inside(f, temp_dir.parts)}

download_paper_pdf(arguments, outs, e0) ==
    LET e == Enter(e0, "download_paper_pdf") IN
    IF "doi" \notin arguments.has THEN Raise(e, <<KeyErrorStr("doi")>>)
    ELSE
      LET doi == arguments.doi
          filename == ArgGet(arguments, "filename", default_filename(doi))
          temp_dir == TemporaryDirectory
          filepath == os_path_join(temp_dir, filename)
          out == outs[1]
          \* save_pdf writes the file when it succeeds
          written == IF out.kind = "ok"
                     THEN e.files \cup {Location(filepath)}
                     ELSE e.files
          exists == Location(filepath) \in written
          e1 == [e EXCEPT
                   !.dirs  = Append(@, temp_dir),
                   !.asked = Append(@, filepath),
                   !.calls = Append(@, Call("save_pdf", "", <<DoiStr(doi)>>,
                                            {<<"filepath", PathStr(filepath)>>})),
                   !.files = remove_tree(written, temp_dir)]
      IN  IF out.kind = "raise"
          THEN Return(e1, << <<"Error downloading PDF: ", CollaboratorMessage>> >>)
          ELSE IF out.kind = "ok" /\ exists
          THEN Return(e1,
                 << <<"Successfully downloaded PDF for DOI: ", DoiStr(doi)>>,
                    <<"File size: ", ToString(out.n), " bytes">>,
                    <<"Saved to temporary location: ", PathStr(filepath)>> >>)
          ELSE Return(e1, << <<"Failed to download PDF for DOI: ", DoiStr(doi)>> >>)

(***************************************************************************)
(* update_preprint_dumps.                                                  *)
(***************************************************************************)
\* the characters U+2713 and U+2717
CheckMark == "(U+2713)"
Cross == "(U+2717)"

\* the servers the if/elif chain has a refresh function for
RefreshServers == {"biorxiv", "medrxiv", "chemrxiv"}

\* except Exception as e: the servers the loop goes on with once the except
\* clause has recorded a refresh that raised
after_except_stop(rest) == <<>>

after_except(rest) == rest

RECURSIVE update_loop(_, _, _, _)
\* for server in servers: try ... except; st holds the effect and response
update_loop(servers, outs, arguments, st) ==
    IF servers = <<>> THEN st
    ELSE
      LET server == Head(servers)
          dated == ArgTruthy(arguments, "start_date")
                   \/ ArgTruthy(arguments, "end_date")
          kw == IF dated
                THEN { <<"start_date", ArgStr(arguments, "start_date")>>,
                       <<"end_date", ArgStr(arguments, "end_date")>> }
                ELSE {}
      IN
      IF server \in RefreshServers
      THEN LET out == Head(outs)
               e1 == [st.e EXCEPT !.calls = Append(@, Call(server, server, <<>>, kw))]
               line == IF out.kind = "raise"
                       THEN <<"Updating ", server, "... ", Cross,
                              " Error: ", CollaboratorMessage>>
                       ELSE <<"Updating ", server, "... ", CheckMark, " Complete">>
               rest == IF out.kind = "raise" THEN after_except(Tail(servers))
                       ELSE Tail(servers)
           IN  update_loop(rest, Tail(outs), arguments,
                           [e |-> e1, response |-> Append(st.response, line)])
      ELSE update_loop(Tail(servers), outs, arguments,
                       [e |-> st.e,
                        response |-> Append(st.response,
                            <<"Updating ", server, "... ", CheckMark, " Complete">>)])

update_preprint_dumps(arguments, outs, e0) ==
    LET e == Enter(e0, "update_preprint_dumps")
        servers == ArgGet(arguments, "servers", DefaultServers)
        st == update_loop(servers, outs, arguments,
                  [e |-> e,
                   response |-> << <<"Updating preprint server dumps...">>, <<>> >>])
    IN  Return(st.e,
               st.response
               \o << <<>>,
                     <<"Dump update process finished. Please restart to use updated dumps.">> >>)

(***************************************************************************)
(* handle_call_tool: the if/elif chain, and the except clause around it.   *)
(***************************************************************************)
\* the chain without its last elif: update_preprint_dumps is not routed
dispatch_without_update(name, arguments, outs, e0, QUERY_FN_DICT) ==
    CASE name = "search_pubmed"  -> search_pubmed(arguments, outs, e0)
      [] name = "search_arxiv"   -> search_arxiv(arguments, outs, e0)
      [] name = "search_scholar" -> search_scholar(arguments, outs, e0)
      [] name = "search_preprint_servers" ->
             search_preprint_servers(arguments, outs, e0, QUERY_FN_DICT)
      [] name = "get_citations"  -> get_citations(arguments, outs, e0)
      [] name = "search_journal_impact" ->
             search_journal_impact(arguments, outs, e0)
      [] name = "download_paper_pdf" -> download_paper_pdf(arguments, outs, e0)
      [] OTHER -> Raise(e0, <<"Unknown tool: ", name>>)

dispatch(name, arguments, outs, e0, QUERY_FN_DICT) ==
    CASE name = "search_pubmed"  -> search_pubmed(arguments, outs, e0)
      [] name = "search_arxiv"   -> search_arxiv(arguments, outs, e0)
      [] name = "search_scholar" -> search_scholar(arguments, outs, e0)
      [] name = "search_preprint_servers" ->
             search_preprint_servers(arguments, outs, e0, QUERY_FN_DICT)
      [] name = "get_citations"  -> get_citations(arguments, outs, e0)
      [] name = "search_journal_impact" ->
             search_journal_impact(arguments, outs, e0)
      [] name = "download_paper_pdf" -> download_paper_pdf(arguments, outs, e0)
      [] name = "update_preprint_dumps" ->
             update_preprint_dumps(arguments, outs, e0)
      [] OTHER -> Raise(e0, <<"Unknown tool: ", name>>)

\* except Exception as e: return [TextContent(type="text", text=f"Error: {str(e)}")]
contain_propagating(r) == r

contain_without_prefix(r) ==
    IF r.raised
    THEN [r EXCEPT !.raised = FALSE, !.blocks = <<TextContent(<<r.msg>>)>>]
    ELSE r

contain(r) ==
    IF r.raised
    THEN [r EXCEPT !.raised = FALSE,
                   !.blocks = <<TextContent(<< <<"Error: ">> \o r.msg >>)>>]
    ELSE r

handle_call_tool(name, arguments, outs, e0, QUERY_FN_DICT) ==
    contain(dispatch(name, arguments, outs, e0, QUERY_FN_DICT))

\* the number of collaborator invocations a call can make
Invocations(name, arguments, QUERY_FN_DICT) ==
    LET servers == ArgGet(arguments, "servers", DefaultServers)
    IN  CASE name \in {"search_pubmed", "search_arxiv"} ->
               IF "query" \in arguments.has THEN 1 ELSE 0
          [] name = "search_scholar" ->
               IF "topic" \in arguments.has THEN 1 ELSE 0
          [] name = "search_preprint_servers" ->
               IF "query" \in arguments.has
               THEN Cardinality({i \in 1..Len(servers) :
                                   queried(servers[i], QUERY_FN_DICT)})
               ELSE 0
          [] name = "get_citations" ->
               IF DoiTruthy(arguments) \/ ArgTruthy(arguments, "title")
               THEN 1 ELSE 0
          [] name = "search_journal_impact" ->
               IF "journal_name" \in arguments.has THEN 1 ELSE 0
          [] name = "download_paper_pdf" ->
               IF "doi" \in arguments.has THEN 1 ELSE 0
          [] name = "update_preprint_dumps" ->
               Cardinality({i \in 1..Len(servers) : servers[i] \in RefreshServers})
          [] OTHER -> 0

(***************************************************************************)
(* load_dumps: which preprint servers get a querier at import time.        *)
(* A dump file is modelled by the date stamp in its name, its size and     *)
(* whether XRXivQuery fails on it; with date-stamped names the reverse     *)
(* lexicographic order of the paths is the descending order of the stamps. *)
(***************************************************************************)
DumpFile(stamp, size, errored) ==
    [stamp |-> stamp, size |-> size, errored |-> errored]

\* dump_paths[0]: the first path glob returned
first_listed(dump_paths) == dump_paths[1]

\* sorted(dump_paths, reverse=True)[0]
most_recent(dump_paths) ==
    CHOOSE f \in Range(dump_paths) :
        \A g \in Range(dump_paths) : g.stamp <= f.stamp

\* whether the loop body reaches QUERY_FN_DICT.update for this server
dump_registered(dump_paths) ==
    /\ dump_paths # <<>>
    /\ LET path == most_recent(dump_paths)
       IN  path.size # 0 /\ ~path.errored

\* the keys of QUERY_FN_DICT once the module is loaded
load_dumps(dumps) ==
    BuiltinQueryFns
    \cup {db \in Range(DumpServers) : dump_registered(dumps[db])}

(***************************************************************************)
(* The requests a client sends.                                            *)
(***************************************************************************)
ListRequest == [kind |-> "list", name |-> "", arguments |-> NoArguments]

CallRequest(name, arguments) ==
    [kind |-> "call", name |-> name, arguments |-> arguments]

\* the argument mappings that hold the keys `base` holds and any subset of
\* `keys`, with the values of `base`
ArgsOver(keys, base) ==
    LET val(h, k) == IF k \in h THEN base[k] ELSE NoArguments[k]
        mapping(h) ==
            [ has          |-> h,
              query        |-> val(h, "query"),
              topic        |-> val(h, "topic"),
              max_results  |-> val(h, "max_results"),
              servers      |-> val(h, "servers"),
              title        |-> val(h, "title"),
              doi          |-> val(h, "doi"),
              filename     |-> val(h, "filename"),
              journal_name |-> val(h, "journal_name"),
              threshold    |-> val(h, "threshold"),
              min_impact   |-> val(h, "min_impact"),
              max_impact   |-> val(h, "max_impact"),
              start_date   |-> val(h, "start_date"),
              end_date     |-> val(h, "end_date") ]
    IN  { mapping(base.has \cup h) : h \in SUBSET keys }

SearchArguments(required) ==
    ArgsOver({required, "max_results"},
             [NoArguments EXCEPT !.query = "cancer", !.topic = "cancer",
                                 !.max_results = 5])

\* the mappings that pass one of the server lists L, or none
PreprintArguments(L) ==
    ArgsOver({"query"}, [NoArguments EXCEPT !.query = "cancer"])
    \cup { [NoArguments EXCEPT !.has = {"query", "servers"},
                               !.query = "cancer", !.servers = l] :
           l \in L }

CitationArguments ==
    UNION { ArgsOver({"title", "doi"},
                     [NoArguments EXCEPT !.title = t, !.doi = d]) :
            t \in {"", "A study"}, d \in {<<>>, <<"10.1", "x">>} }

ImpactArguments ==
    UNION { ArgsOver({"journal_name", "threshold", "min_impact", "max_impact"},
                     [NoArguments EXCEPT !.journal_name = "Nature",
                                         !.threshold = 90, !.min_impact = 1,
                                         !.max_impact = m]) :
            m \in {0, 5} }

DownloadArguments ==
    UNION { ArgsOver({"doi", "filename"},
                     [NoArguments EXCEPT !.doi = <<"10.1", "x">>,
                                         !.filename = f]) :
            f \in { Path(FALSE, <<"paper.pdf">>),
                    Path(FALSE, <<"..", "paper.pdf">>),
                    Path(TRUE, <<"tmp", "paper.pdf">>) } }

UpdateArguments(L) ==
    ArgsOver({"start_date", "end_date"},
             [NoArguments EXCEPT !.start_date = "2024-01-01",
                                 !.end_date = "2024-02-01"])
    \cup { [NoArguments EXCEPT !.has = {"servers", "start_date"},
                               !.start_date = "", !.servers = l] : l \in L }
    \cup UNION { ArgsOver({"start_date", "end_date"},
                          [NoArguments EXCEPT !.has = {"servers"},
                                              !.start_date = "2024-01-01",
                                              !.end_date = "2024-02-01",
                                              !.servers = l]) :
                 l \in L }

\* the argument mappings drawn for a tool name; an unknown name gets the
\* empty mapping and one that holds a query
ArgumentsFor(name, L) ==
    CASE name \in {"search_pubmed", "search_arxiv"} -> SearchArguments("query")
      [] name = "search_scholar"          -> SearchArguments("topic")
      [] name = "search_preprint_servers" -> PreprintArguments(L)
      [] name = "get_citations"           -> CitationArguments
      [] name = "search_journal_impact"   -> ImpactArguments
      [] name = "download_paper_pdf"      -> DownloadArguments
      [] name = "update_preprint_dumps"   -> UpdateArguments(L)
      [] OTHER -> ArgsOver({"query"}, [NoArguments EXCEPT !.query = "cancer"])

\* the tools/call requests for the tool names `names`, with server lists L
CallRequests(names, L) ==
    UNION { {CallRequest(name, a) : a \in ArgumentsFor(name, L)} : name \in names }

\* the server lists drawn in the whole-server specification
CoarseServerLists ==
    { <<>>, <<"zenodo">>, <<"biorxiv">>, <<"arxiv", "medrxiv">>,
      <<"chemrxiv", "biorxiv">> }

\* the outcomes of one collaborator invocation: it stages up to n records
\* of one of the shapes, raises, or returns without a usable result
Outcomes(n, shapes) ==
    {Outcome("ok", k, sh) : k \in 0..n, sh \in shapes}
    \cup {Outcome("raise", 0, "bare"), Outcome("bad", 0, "bare")}

\* the outcomes among O that a tool's collaborator tells apart
OutcomesFor(name, O) ==
    CASE name = "update_preprint_dumps" ->
             {o \in O : o.kind # "bad" /\ o.n = 0}
      [] name \in {"get_citations", "search_journal_impact"} ->
             {o \in O : o.kind # "bad"}
      [] OTHER -> O

(***************************************************************************)
(* The server process.                                                     *)
(***************************************************************************)
VARIABLES
    entry,            \* the script the process was launched with
    pc,               \* boot, imported, idle, pending, done
    sys_stdout,       \* the channel sys.stdout is bound to
    stdout_bindings,  \* every value sys.stdout was bound to, in order
    original_stdout,  \* mcp_server.original_stdout
    transport_out,    \* the channel the stdio transport writes frames to
    dumps,            \* the dump files on disk, per preprint server
    QUERY_FN_DICT,    \* the keys of load_dumps.QUERY_FN_DICT
    request,          \* the request being served
    listed,           \* the tool names a tools/list request was answered with
    result,           \* what the tool call being served did and returned
    outcomes,         \* the outcomes of that call's collaborator invocations
    temp_files,       \* the staging files that exist
    files,            \* the files that exist outside tempfile's care
    wire,             \* what the process's real stdout got since the last frame
    seen,             \* the kinds of trouble earlier requests ran into
    tasks,            \* the handle_call_tool coroutines the event loop holds
    running,          \* the task that has the event loop, 0 when none has
    started,          \* the tasks in the order their handlers were entered
    finished          \* the tasks in the order their results were produced

vars == << entry, pc, sys_stdout, stdout_bindings, original_stdout,
           transport_out, dumps, QUERY_FN_DICT, request, listed, result,
           outcomes, temp_files, files, wire, seen, tasks, running, started,
           finished >>

Entries == {"mcp_server", "mcp_clean", "start_mcp", "mcp_server_wrapper"}

NoRequest == [kind |-> "none", name |-> "", arguments |-> NoArguments]

\* the dump directory of a server: empty, or holding one good dump
SimpleDumps == { <<>>, <<DumpFile(1, 1, FALSE)>> }

Init ==
    /\ entry \in Entries
    /\ pc = "boot"
    /\ sys_stdout = "stdout"
    /\ stdout_bindings = <<"stdout">>
    /\ original_stdout = "unset"
    /\ transport_out = "unset"
    /\ dumps \in [Range(DumpServers) -> SimpleDumps]
    /\ QUERY_FN_DICT = {}
    /\ request = NoRequest
    /\ listed = <<>>
    /\ result = Effect({}, {})
    /\ outcomes = <<>>
    /\ temp_files = {}
    /\ files = {}
    /\ wire = <<>>
    /\ seen = {}
    /\ tasks = <<>>
    /\ running = 0
    /\ started = <<>>
    /\ finished = <<>>

\* the rebindings of sys.stdout the entry script makes before it imports
\* paperscraper.mcp_server: the wrapper binds it to a NullWriter
before_import(script) ==
    IF script = "mcp_server_wrapper" THEN <<"null">> ELSE <<>>

\* the rebindings the entry script makes after the import and before
\* asyncio.run(main()): the wrapper rebinds the stdout it saved
after_import(script) ==
    IF script = "mcp_server_wrapper" THEN <<"stdout">> ELSE <<>>

\* The entry script's module-level code up to asyncio.run(main()).  Loading
\* mcp_server saves the current sys.stdout as original_stdout, binds
\* sys.stdout to stderr and imports load_dumps, which fills QUERY_FN_DICT.
RunEntryScript ==
    /\ pc = "boot"
    /\ LET pre == stdout_bindings \o before_import(entry)
           bound == pre \o <<"stderr">> \o after_import(entry)
       IN  /\ original_stdout' = pre[Len(pre)]
           /\ stdout_bindings' = bound
           /\ sys_stdout' = bound[Len(bound)]
    /\ QUERY_FN_DICT' = load_dumps(dumps)
    /\ pc' = "imported"
    /\ UNCHANGED << tasks, running, started, finished >>
    /\ UNCHANGED << entry, transport_out, dumps, request, listed, result,
                    outcomes, temp_files, files, wire, seen >>

\* main(): sys.stdout = original_stdout, then the stdio transport opens on
\* the channel sys.stdout is bound to at that moment
main ==
    /\ pc = "imported"
    /\ sys_stdout' = original_stdout
    /\ stdout_bindings' = Append(stdout_bindings, original_stdout)
    /\ transport_out' = original_stdout
    /\ pc' = "idle"
    /\ UNCHANGED << tasks, running, started, finished >>
    /\ UNCHANGED << entry, original_stdout, dumps, QUERY_FN_DICT, request,
                    listed, result, outcomes, temp_files, files, wire, seen >>

\* the transport reads a tools/list request
ReceiveList ==
    /\ pc = "idle"
    /\ request' = ListRequest
    /\ pc' = "pending"
    /\ UNCHANGED << tasks, running, started, finished >>
    /\ UNCHANGED << entry, sys_stdout, stdout_bindings, original_stdout,
                    transport_out, dumps, QUERY_FN_DICT, listed, result,
                    outcomes, temp_files, files, wire, seen >>

\* the transport reads a tools/call request, one of R
ReceiveCall(R) ==
    /\ pc = "idle"
    /\ \E r \in R : request' = r
    /\ pc' = "pending"
    /\ UNCHANGED << tasks, running, started, finished >>
    /\ UNCHANGED << entry, sys_stdout, stdout_bindings, original_stdout,
                    transport_out, dumps, QUERY_FN_DICT, listed, result,
                    outcomes, temp_files, files, wire, seen >>

ListTools ==
    /\ pc = "pending"
    /\ request.kind = "list"
    /\ listed' = handle_list_tools
    /\ pc' = "done"
    /\ UNCHANGED << tasks, running, started, finished >>
    /\ UNCHANGED << entry, sys_stdout, stdout_bindings, original_stdout,
                    transport_out, dumps, QUERY_FN_DICT, request, result,
                    outcomes, temp_files, files, wire, seen >>

\* what a collaborator's print() adds to the process's real stdout: the
\* text, when sys.stdout is bound to it
collaborator_print(out, bound) ==
    IF bound = "stdout" THEN Append(out, "text") ELSE out

\* handle_call_tool runs from entry to return; each collaborator invocation
\* has one of the outcomes O, and the first prints to sys.stdout or not (P)
CallTool(O, P) ==
    /\ pc = "pending"
    /\ request.kind = "call"
    /\ LET k == Invocations(request.name, request.arguments, QUERY_FN_DICT)
       IN  \E outs \in [1..k -> OutcomesFor(request.name, O)],
              prints \in (IF k > 0 THEN P ELSE {FALSE}) :
             LET r == handle_call_tool(request.name, request.arguments, outs,
                                       Effect(temp_files, files), QUERY_FN_DICT)
             IN  /\ result' = r
                 /\ outcomes' = outs
                 /\ temp_files' = r.live
                 /\ files' = r.files
                 /\ wire' = IF prints THEN collaborator_print(wire, sys_stdout)
                            ELSE wire
                 /\ seen' = seen
                      \cup (IF r.handler = "none" THEN {"unknown"} ELSE {})
                      \cup (IF k > 0 /\ outs[1].kind = "raise"
                            THEN {"failed"} ELSE {})
    /\ pc' = "done"
    /\ UNCHANGED << tasks, running, started, finished >>
    /\ UNCHANGED << entry, sys_stdout, stdout_bindings, original_stdout,
                    transport_out, dumps, QUERY_FN_DICT, request, listed >>

\* what a response frame adds to the process's real stdout
send_frame(bound) == IF bound = "stdout" THEN <<"frame">> ELSE <<>>

\* the transport writes the response frame, which ends the exchange
Respond ==
    /\ pc = "done"
    /\ wire' = send_frame(transport_out)
    /\ request' = NoRequest
    /\ listed' = <<>>
    /\ result' = Effect(temp_files, files)
    /\ outcomes' = <<>>
    /\ pc' = "idle"
    /\ UNCHANGED << tasks, running, started, finished >>
    /\ UNCHANGED << entry, sys_stdout, stdout_bindings, original_stdout,
                    transport_out, dumps, QUERY_FN_DICT, temp_files, files,
                    seen >>

\* the requests and collaborator outcomes of the whole-server specification:
\* every tool and some unknown names, with small collaborator results
CoarseRequests == CallRequests(RequestNames, CoarseServerLists)

CoarseOutcomes == Outcomes(MaxCoarse, {"full"})

Next ==
    \/ RunEntryScript
    \/ main
    \/ ReceiveList
    \/ ReceiveCall(CoarseRequests)
    \/ ListTools
    \/ CallTool(CoarseOutcomes, BOOLEAN)
    \/ Respond

Spec == Init /\ [][Next]_vars

\* the process launched as python -m paperscraper.mcp_server
InitDirect == Init /\ entry = "mcp_server"

\* the three single-source searches, with every record count up to MaxRecords
SingleSourceTools == {"search_pubmed", "search_arxiv", "search_scholar"}

SearchRequests == CallRequests(SingleSourceTools, {})

SearchOutcomes == Outcomes(MaxRecords, Shapes)

NextSearch ==
    \/ RunEntryScript
    \/ main
    \/ ReceiveCall(SearchRequests)
    \/ CallTool(SearchOutcomes, {FALSE})
    \/ Respond

SpecSearch == InitDirect /\ [][NextSearch]_vars

\* search_preprint_servers, with every list of at most MaxServers of the
\* servers its descriptor allows and up to MaxPerServer records per server
PreprintRequests ==
    CallRequests({"search_preprint_servers"},
                 SeqsUpTo(Range(DefaultServers), MaxServers))

PreprintOutcomes == {o \in Outcomes(MaxPerServer, {"full"}) : o.kind # "bad"}

NextPreprint ==
    \/ RunEntryScript
    \/ main
    \/ ReceiveCall(PreprintRequests)
    \/ CallTool(PreprintOutcomes, {FALSE})
    \/ Respond

SpecPreprint == InitDirect /\ [][NextPreprint]_vars

(***************************************************************************)
(* Module load with any dump directory: up to MaxDumps files for a server, *)
(* in the order glob returns them, which is any order.                     *)
(***************************************************************************)
\* the dump files a server's directory can hold: a stamp, empty or not,
\* readable by XRXivQuery or not
DumpFiles ==
    { DumpFile(stamp, size, errored) :
        stamp \in 1..MaxDumps, size \in 0..1, errored \in BOOLEAN }

\* glob.glob(os.path.join(dump_root, db + "*")): files with different names,
\* in any order
DumpListings ==
    { l \in SeqsUpTo(DumpFiles, MaxDumps) :
        \A i, j \in 1..Len(l) : l[i].stamp = l[j].stamp => i = j }

\* the dump directories drawn: one server's holds any listing, the others'
\* are empty or hold one good dump
DumpDirectories ==
    UNION { { [base EXCEPT ![db] = l] : l \in DumpListings } :
            db \in Range(DumpServers),
            base \in [Range(DumpServers) -> SimpleDumps] }

InitLoad ==
    /\ entry = "mcp_server"
    /\ pc = "boot"
    /\ sys_stdout = "stdout"
    /\ stdout_bindings = <<"stdout">>
    /\ original_stdout = "unset"
    /\ transport_out = "unset"
    /\ dumps \in DumpDirectories
    /\ QUERY_FN_DICT = {}
    /\ request = NoRequest
    /\ listed = <<>>
    /\ result = Effect({}, {})
    /\ outcomes = <<>>
    /\ temp_files = {}
    /\ files = {}
    /\ wire = <<>>
    /\ seen = {}
    /\ tasks = <<>>
    /\ running = 0
    /\ started = <<>>
    /\ finished = <<>>

NextLoad ==
    \/ RunEntryScript
    \/ main
    \/ ReceiveList
    \/ ListTools
    \/ Respond

SpecLoad == InitLoad /\ [][NextLoad]_vars

(***************************************************************************)
(* The handlers invoked directly, as a caller that imports the module and  *)
(* awaits a handler coroutine does: what dispatch's branch does, without   *)
(* the except clause of handle_call_tool around it.                        *)
(***************************************************************************)
\* await <handler>(arguments): the handler runs from entry to return or raise
CallHandler(O) ==
    /\ pc = "pending"
    /\ request.kind = "call"
    /\ LET k == Invocations(request.name, request.arguments, QUERY_FN_DICT)
       IN  \E outs \in [1..k -> OutcomesFor(request.name, O)] :
             LET r == dispatch(request.name, request.arguments, outs,
                               Effect(temp_files, files), QUERY_FN_DICT)
             IN  /\ result' = r
                 /\ outcomes' = outs
                 /\ temp_files' = r.live
                 /\ files' = r.files
                 /\ seen' = seen
                      \cup (IF k > 0 /\ outs[1].kind = "raise"
                            THEN {"failed"} ELSE {})
    /\ pc' = "done"
    /\ UNCHANGED << tasks, running, started, finished >>
    /\ UNCHANGED << entry, sys_stdout, stdout_bindings, original_stdout,
                    transport_out, dumps, QUERY_FN_DICT, request, listed,
                    wire >>

\* the calls a direct caller makes: the eight handlers, any arguments
DirectRequests == CallRequests(Range(handle_list_tools), CoarseServerLists)

NextDirect ==
    \/ RunEntryScript
    \/ main
    \/ ReceiveCall(DirectRequests)
    \/ CallHandler(CoarseOutcomes)
    \/ Respond

SpecDirect == InitDirect /\ [][NextDirect]_vars

(***************************************************************************)
(* The handlers as coroutines on the event loop.  The transport may hand   *)
(* the loop several tools/call requests before any of them is served; each *)
(* becomes a task running handle_call_tool.  One task has the loop at a    *)
(* time, and gives it up only where it awaits something that suspends.  A  *)
(* single-source search is followed through its steps: entry, the staging  *)
(* file, the collaborator call, and load, render, finally and return.      *)
(***************************************************************************)
\* a task the loop was given: the tool, where the coroutine is, the staging
\* file it created and whether its collaborator raised
Task(name) ==
    [name |-> name, at |-> "queued", temp_file |-> "", failed |-> FALSE]

\* where a handler that was entered and has not returned can be
InProgressAts == {"entered", "staged", "called"}

\* whether the coroutine, having reached `at`, awaits something that gives
\* up the event loop: handle_call_tool awaits only the handler coroutine,
\* and the handlers call their collaborators without await
suspends_in_collaborator(at) == at = "staged"

suspends(at) == FALSE

\* the task that has the loop once task i has reached `at`
loop_after(i, at) ==
    IF at = "returned" \/ suspends(at) THEN 0 ELSE i

\* task i can take its next step: it has the loop, or it is suspended and
\* the loop is free
can_run(i) ==
    /\ tasks[i].at \in InProgressAts
    /\ running = i \/ running = 0

\* server.run hands a tools/call request to the loop as a new task
AcceptCall ==
    /\ pc = "idle"
    /\ running = 0
    /\ Len(tasks) < MaxTasks
    /\ \E name \in SingleSourceTools :
          tasks' = Append(tasks, Task(name))
    /\ UNCHANGED << running, started, finished >>
    /\ UNCHANGED << entry, pc, sys_stdout, stdout_bindings, original_stdout,
                    transport_out, dumps, QUERY_FN_DICT, request, listed,
                    result, outcomes, temp_files, files, wire, seen >>

\* the loop runs a task for the first time: handle_call_tool is entered and
\* awaits the handler, which reads its arguments
EnterHandler ==
    /\ pc = "idle"
    /\ running = 0
    /\ \E i \in 1..Len(tasks) :
          /\ tasks[i].at = "queued"
          /\ tasks' = [tasks EXCEPT ![i].at = "entered"]
          /\ running' = loop_after(i, "entered")
          /\ started' = Append(started, i)
    /\ UNCHANGED finished
    /\ UNCHANGED << entry, pc, sys_stdout, stdout_bindings, original_stdout,
                    transport_out, dumps, QUERY_FN_DICT, request, listed,
                    result, outcomes, temp_files, files, wire, seen >>

\* with tempfile.NamedTemporaryFile(...) as f: temp_file = f.name
CreateTempFile ==
    /\ \E i \in 1..Len(tasks) :
          /\ can_run(i)
          /\ tasks[i].at = "entered"
          /\ LET temp_file == NamedTemporaryFile(temp_files)
             IN  /\ tasks' = [tasks EXCEPT ![i].at = "staged",
                                           ![i].temp_file = temp_file]
                 /\ temp_files' = temp_files \cup {temp_file}
          /\ running' = loop_after(i, "staged")
    /\ UNCHANGED << started, finished >>
    /\ UNCHANGED << entry, pc, sys_stdout, stdout_bindings, original_stdout,
                    transport_out, dumps, QUERY_FN_DICT, request, listed,
                    result, outcomes, files, wire, seen >>

\* the collaborator call in the try block, which returns or raises
InvokeCollaborator ==
    /\ \E i \in 1..Len(tasks), failed \in BOOLEAN :
          /\ can_run(i)
          /\ tasks[i].at = "staged"
          /\ tasks' = [tasks EXCEPT ![i].at = "called", ![i].failed = failed]
          /\ running' = loop_after(i, "called")
    /\ UNCHANGED << started, finished >>
    /\ UNCHANGED << entry, pc, sys_stdout, stdout_bindings, original_stdout,
                    transport_out, dumps, QUERY_FN_DICT, request, listed,
                    result, outcomes, temp_files, files, wire, seen >>

\* load and render, or the exception on its way out; the finally block; and
\* handle_call_tool's return of the result
ReturnResult ==
    /\ \E i \in 1..Len(tasks) :
          /\ can_run(i)
          /\ tasks[i].at = "called"
          /\ tasks' = [tasks EXCEPT ![i].at = "returned"]
          /\ temp_files' = release_temp(temp_files, tasks[i].temp_file,
                                        tasks[i].failed)
          /\ running' = loop_after(i, "returned")
          /\ finished' = Append(finished, i)
    /\ UNCHANGED started
    /\ UNCHANGED << entry, pc, sys_stdout, stdout_bindings, original_stdout,
                    transport_out, dumps, QUERY_FN_DICT, request, listed,
                    result, outcomes, files, wire, seen >>

NextTasks ==
    \/ RunEntryScript
    \/ main
    \/ AcceptCall
    \/ EnterHandler
    \/ CreateTempFile
    \/ InvokeCollaborator
    \/ ReturnResult

SpecTasks == InitDirect /\ [][NextTasks]_vars

(***************************************************************************)
(* Notions the properties below are stated with.                           *)
(***************************************************************************)
\* a tools/call (tools/list) request has been handled, its response not sent
CallDone == pc = "done" /\ request.kind = "call"

ListDone == pc = "done" /\ request.kind = "list"

\* the characters of a line, and of a text that does not end in a newline
LineStr(line) == Join(line, "")

TextStr(lines) == Join([i \in 1..Len(lines) |-> LineStr(lines[i])], "\n")

\* the collaborator invocations of the call all returned usable results
AllReturned == \A i \in 1..Len(outcomes) : outcomes[i].kind = "ok"

\* the positions of the lines of a text that number a record: "{i+1}. {title}"
NumberedEntries(text) ==
    {i \in 1..Len(text) : Len(text[i]) >= 3 /\ text[i][2] = ". "}

\* the positions of the lines "... and {k} more results"
MoreLines(text) ==
    {i \in 1..Len(text) : Len(text[i]) >= 1 /\ text[i][1] = "... and "}

(***************************************************************************)
(* handle_call_tool's boundary (C1, C2, C3) and the catalog (C4).          *)
(***************************************************************************)
\* C1: for each of the eight registered tool names, whatever the arguments
\* mapping holds (required keys missing or not) and whether the collaborators
\* return or raise, handle_call_tool does not raise to its caller and returns
\* a list of at least one block, every block a text block.
C1_CallReturnsTextBlocks ==
    (CallDone /\ request.name \in Range(handle_list_tools)) =>
        /\ ~result.raised
        /\ Len(result.blocks) >= 1
        /\ \A i \in 1..Len(result.blocks) : result.blocks[i].type = "text"

\* a search_pubmed call without its required key "query" was answered with
\* one text block, the KeyError rendered in it
C1_Witness ==
    /\ CallDone
    /\ request.name = "search_pubmed"
    /\ "query" \notin request.arguments.has
    /\ ~result.raised
    /\ Len(result.blocks) = 1
    /\ TextStr(result.blocks[1].text) = "Error: 'query'"

\* C2 as the specification states it: for a name that is not registered,
\* handle_call_tool returns exactly one text block whose text is
\* "Unknown tool: {name}".
C2_UnknownToolText_AsStated ==
    (CallDone /\ request.name \notin Range(handle_list_tools)) =>
        /\ ~result.raised
        /\ Len(result.blocks) = 1
        /\ result.blocks[1].type = "text"
        /\ TextStr(result.blocks[1].text) = "Unknown tool: " \o request.name

\* C2, as the code behaves: for a name that is not registered,
\* handle_call_tool returns exactly one text block whose text is
\* "Error: Unknown tool: {name}" (the ValueError passes through the except
\* clause, which prefixes "Error: "), and does not raise.
C2_UnknownToolText ==
    (CallDone /\ request.name \notin Range(handle_list_tools)) =>
        /\ ~result.raised
        /\ Len(result.blocks) = 1
        /\ result.blocks[1].type = "text"
        /\ TextStr(result.blocks[1].text)
             = "Error: Unknown tool: " \o request.name

\* a call to bogus_tool was answered
C2_Witness ==
    /\ CallDone
    /\ request.name = "bogus_tool"
    /\ Len(result.blocks) = 1
    /\ TextStr(result.blocks[1].text) = "Error: Unknown tool: bogus_tool"

\* C3: the names handle_list_tools advertises are pairwise distinct and are
\* exactly the names handle_call_tool routes to a handler; a routed name
\* reaches the one handler of that name; a call with any other name enters no
\* handler and invokes no collaborator (and creates no temp file or directory).
C3_CatalogMatchesDispatch ==
    /\ \A i, j \in 1..Len(handle_list_tools) :
          handle_list_tools[i] = handle_list_tools[j] => i = j
    /\ CallDone =>
          /\ request.name \in Range(handle_list_tools)
                <=> result.handler # "none"
          /\ result.handler # "none" => result.handler = request.name
          /\ request.name \notin Range(handle_list_tools) =>
                /\ result.calls = <<>>
                /\ result.made = <<>>
                /\ result.dirs = <<>>

\* the last advertised name was routed to its handler, which invoked a
\* collaborator, after an earlier call with an unknown name invoked none
C3_Witness ==
    /\ CallDone
    /\ request.name = "update_preprint_dumps"
    /\ result.handler = "update_preprint_dumps"
    /\ Len(result.calls) >= 1
    /\ "unknown" \in seen

\* C4: whatever requests came before (tool calls that succeeded, tool calls
\* whose collaborator failed, calls to unknown names), a tools/list request
\* is answered, and with exactly the eight descriptors search_pubmed,
\* search_arxiv, search_scholar, search_preprint_servers, get_citations,
\* search_journal_impact, download_paper_pdf, update_preprint_dumps, in that
\* order: the server, once running, always accepts or answers a request.
C4_ListAfterAnyHistory ==
    /\ ListDone =>
          listed = << "search_pubmed", "search_arxiv", "search_scholar",
                      "search_preprint_servers", "get_citations",
                      "search_journal_impact", "download_paper_pdf",
                      "update_preprint_dumps" >>
    /\ pc = "idle" => ENABLED ReceiveList
    /\ (pc = "pending" /\ request.kind = "list") => ENABLED ListTools
    /\ pc = "done" => ENABLED Respond

\* a tools/list request was answered after a call whose collaborator raised
\* and a call to an unknown name
C4_Witness ==
    /\ ListDone
    /\ Len(listed) = 8
    /\ seen = {"failed", "unknown"}

(***************************************************************************)
(* Resources and the output channel (C5, C6, C7).                          *)
(***************************************************************************)
\* the tools that stage their collaborator's records in a temp file
StagingTools ==
    {"search_pubmed", "search_arxiv", "search_scholar",
     "search_preprint_servers"}

\* C5: a call of search_pubmed, search_arxiv, search_scholar or
\* search_preprint_servers, however it ends (the collaborator returns, the
\* collaborator raises, the staged file does not load), leaves none of the
\* temp files it created behind, and the live temp files after the call are
\* the ones that were live before it; this holds for every call of every
\* sequence of calls.
C5_NoTempFileOutlivesCall ==
    [][ (pc = "pending" /\ pc' = "done" /\ request.kind = "call"
           /\ request.name \in StagingTools) =>
          /\ temp_files' = temp_files
          /\ Cardinality(temp_files') = Cardinality(temp_files)
          /\ \A i \in 1..Len(result'.made) : result'.made[i] \notin temp_files'
      ]_vars

\* a search_preprint_servers call created two temp files, its second
\* collaborator raised, and no temp file is left
C5_Witness ==
    /\ CallDone
    /\ request.name = "search_preprint_servers"
    /\ Len(result.made) = 2
    /\ outcomes[1].kind = "ok"
    /\ outcomes[2].kind = "raise"
    /\ temp_files = {}
    /\ "failed" \in seen

\* C6 as the specification states it: whatever doi and filename the caller
\* passes (no filename, a plain name, a name with ".." components, an
\* absolute path), the file download_paper_pdf asks the collaborator to write
\* lies inside the temporary directory created for the call, and after the
\* call no file the call wrote exists, whether the download succeeded, failed
\* or raised.
C6_DownloadConfinedToTempDir ==
    (CallDone /\ request.name = "download_paper_pdf") =>
        /\ Len(result.dirs) = Len(result.asked)
        /\ \A i \in 1..Len(result.asked) :
              /\ Inside(Location(result.asked[i]), result.dirs[i].parts)
              /\ Location(result.asked[i]) \notin files

\* C7 as the specification states it: from the moment main() has started
\* the transport, the process's real stdout, which the transport writes its
\* frames to, carries protocol frames only: text a collaborator writes to
\* sys.stdout while a tool call is handled does not reach it.
C7_OnlyFramesOnProtocolChannel ==
    (pc \in {"idle", "pending", "done"} /\ transport_out = "stdout") =>
        \A i \in 1..Len(wire) : wire[i] = "frame"

(***************************************************************************)
(* Rendering (C8, C9, C10).                                                *)
(***************************************************************************)
\* the name a single-source tool's first line gives its source
SourceLabel(name) ==
    CASE name = "search_pubmed"  -> "PubMed"
      [] name = "search_arxiv"   -> "arXiv"
      [] name = "search_scholar" -> "Google Scholar"

\* C8: when the collaborator of search_pubmed, search_arxiv or
\* search_scholar stages n records, the text starts with the line
\* "Found {n} papers in {source}" (n the number staged, whatever max_results
\* the caller passed), has exactly min(n,10) numbered entries, numbered
\* 1..min(n,10) in order, and has the line "... and {n-10} more results",
\* as its last line and only once, if and only if n > 10.
C8_SingleSourceRendering ==
    (CallDone /\ request.name \in {"search_pubmed", "search_arxiv",
                                   "search_scholar"}
       /\ Len(outcomes) = 1 /\ AllReturned) =>
        LET n == outcomes[1].n
            text == result.blocks[1].text
            more == <<"... and ", ToString(n - 10), " more results">>
        IN  /\ Len(result.blocks) = 1
            /\ LineStr(text[1]) = "Found " \o ToString(n) \o " papers in "
                                    \o SourceLabel(request.name)
            /\ Cardinality(NumberedEntries(text)) = Min(n, 10)
            /\ { text[i][1] : i \in NumberedEntries(text) }
                 = { ToString(k) : k \in 1..Min(n, 10) }
            /\ (n > 10) <=> (MoreLines(text) # {})
            /\ (n > 10) => /\ MoreLines(text) = {Len(text)}
                           /\ text[Len(text)] = more

\* search_pubmed was called with max_results 5, its collaborator staged 12
\* records, and the text ends with "... and 2 more results"
C8_Witness ==
    /\ CallDone
    /\ request.name = "search_pubmed"
    /\ "max_results" \in request.arguments.has
    /\ request.arguments.max_results = 5
    /\ Len(outcomes) = 1 /\ outcomes[1].kind = "ok" /\ outcomes[1].n = 12
    /\ LineStr(result.blocks[1].text[1]) = "Found 12 papers in PubMed"
    /\ Cardinality(NumberedEntries(result.blocks[1].text)) = 10
    /\ LineStr(result.blocks[1].text[Len(result.blocks[1].text)])
         = "... and 2 more results"

\* the servers the caller of search_preprint_servers asked for
RequestedServers ==
    IF "servers" \in request.arguments.has THEN request.arguments.servers
    ELSE <<"biorxiv", "medrxiv", "chemrxiv">>

\* those of them that are in the active index, in the caller's order
ActiveServers ==
    LET active(server) == server \in QUERY_FN_DICT
    IN  SelectSeq(RequestedServers, active)

\* the positions of the lines "{SERVER}: Found {n} papers" of a text
SectionHeaders(text) ==
    {i \in 1..Len(text) : Len(text[i]) >= 2 /\ text[i][2] = ": Found "}

\* the lines of the section that starts at header position h: up to the next
\* header or the end of the text
SectionLines(text, h) ==
    LET later == {j \in SectionHeaders(text) : j > h}
        last == IF later = {} THEN Len(text)
                ELSE (CHOOSE j \in later : \A k \in later : j <= k) - 1
    IN  SubSeq(text, h, last)

\* the positions of the lines of a section that number a record:
\* "  {i+1}. {title}"
SectionEntries(section) ==
    {i \in 1..Len(section) : Len(section[i]) >= 4 /\ section[i][3] = ". "}

\* the positions of the lines of a section that are neither its header, nor
\* blank, nor a record's numbered line, nor one of a record's field lines
SectionOtherLines(section) ==
    {i \in 2..Len(section) :
        /\ section[i] # <<>>
        /\ i \notin SectionEntries(section)
        /\ section[i][1] \notin {"     Authors: ", "     Date: ", "     DOI: "}}

\* C9 as the specification states it: for each queried server that yields n
\* records, that server's section of the search_preprint_servers text has
\* exactly min(n,5) numbered entries and, if and only if n > 5, a trailing
\* line reporting the n-5 additional results.
C9_PreprintTruncationLaw ==
    (CallDone /\ request.name = "search_preprint_servers"
       /\ "query" \in request.arguments.has /\ AllReturned) =>
        LET text == result.blocks[1].text
        IN  \A h \in SectionHeaders(text) :
              LET section == SectionLines(text, h)
                  n == Cardinality({j \in SectionHeaders(text) : j <= h})
                  yielded == outcomes[n].n
              IN  /\ Cardinality(SectionEntries(section)) = Min(yielded, 5)
                  /\ (yielded > 5) <=> (SectionOtherLines(section) # {})

\* C10: search_preprint_servers goes through the requested servers in the
\* caller's order and invokes a collaborator only for servers that are in
\* QUERY_FN_DICT, in that order; when every invoked collaborator returns, it
\* invokes one for each such server, the text has one section per such
\* server, in that order and with that server's record count, no section for
\* a server it skipped, and the total of its first line is the sum of the
\* record counts of the queried servers.
C10_PreprintServersVisited ==
    (CallDone /\ request.name = "search_preprint_servers"
       /\ "query" \in request.arguments.has) =>
        LET calls == result.calls
            text == result.blocks[1].text
            headers == SectionHeaders(text)
            nth(k) == CHOOSE h \in headers :
                         Cardinality({j \in headers : j <= h}) = k
        IN  /\ Len(calls) <= Len(ActiveServers)
            /\ \A i \in 1..Len(calls) : calls[i].target = ActiveServers[i]
            /\ AllReturned =>
                 /\ Len(calls) = Len(ActiveServers)
                 /\ Cardinality(headers) = Len(ActiveServers)
                 /\ \A k \in 1..Len(ActiveServers) :
                       text[nth(k)] = << Upper(ActiveServers[k]), ": Found ",
                                         ToString(outcomes[k].n), " papers" >>
                 /\ text[1][4] = ToString(SumSeq([k \in 1..Len(outcomes) |->
                                                     outcomes[k].n]))

\* servers [biorxiv, chemrxiv] with only biorxiv active: biorxiv's three
\* records are the total and there is one section, BIORXIV's
C10_Witness ==
    /\ CallDone
    /\ request.name = "search_preprint_servers"
    /\ RequestedServers = <<"biorxiv", "chemrxiv">>
    /\ "biorxiv" \in QUERY_FN_DICT
    /\ "chemrxiv" \notin QUERY_FN_DICT
    /\ Len(outcomes) = 1 /\ outcomes[1].kind = "ok" /\ outcomes[1].n = 3
    /\ Len(result.calls) = 1
    /\ LineStr(result.blocks[1].text[1])
         = "Total papers found across 2 servers: 3"
    /\ Cardinality(SectionHeaders(result.blocks[1].text)) = 1

(***************************************************************************)
(* get_citations (C11, C12).                                               *)
(***************************************************************************)
\* the caller supplied a title (a DOI): the key is present and not empty
TitleSupplied == "title" \in request.arguments.has /\ request.arguments.title # ""

DoiSupplied == "doi" \in request.arguments.has /\ request.arguments.doi # <<>>

\* C11: a get_citations call that supplies neither a title nor a DOI (the
\* keys are absent, or present and empty) returns one text block whose text
\* is "Error: Either title or DOI must be provided" and invokes no
\* citation collaborator.
C11_CitationsNeedTitleOrDoi ==
    (CallDone /\ request.name = "get_citations"
       /\ ~TitleSupplied /\ ~DoiSupplied) =>
        /\ Len(result.blocks) = 1
        /\ result.blocks[1].type = "text"
        /\ TextStr(result.blocks[1].text)
             = "Error: Either title or DOI must be provided"
        /\ result.calls = <<>>

\* get_citations was called with both keys present and empty
C11_Witness ==
    /\ CallDone
    /\ request.name = "get_citations"
    /\ request.arguments.has = {"title", "doi"}
    /\ request.arguments.title = ""
    /\ request.arguments.doi = <<>>
    /\ result.calls = <<>>
    /\ Len(result.blocks) = 1

\* C12 as the specification states it: get_citations looks citations up
\* only when exactly one of title and doi is supplied; a call that supplies
\* both is not served by a lookup.
C12_LookupNeedsExactlyOne ==
    (CallDone /\ request.name = "get_citations" /\ result.calls # <<>>) =>
        (TitleSupplied /\ ~DoiSupplied) \/ (DoiSupplied /\ ~TitleSupplied)

(***************************************************************************)
(* update_preprint_dumps (C13, C14).                                       *)
(***************************************************************************)
\* the servers the caller of update_preprint_dumps asked for
RequestedUpdates ==
    IF "servers" \in request.arguments.has THEN request.arguments.servers
    ELSE <<"biorxiv", "medrxiv", "chemrxiv">>

\* the positions of the status lines "Updating {server}... ..." of a text
StatusLines(text) ==
    {i \in 1..Len(text) : Len(text[i]) >= 4 /\ text[i][1] = "Updating "}

\* the position of the k-th status line
StatusLine(text, k) ==
    CHOOSE i \in StatusLines(text) :
        Cardinality({j \in StatusLines(text) : j <= i}) = k

\* C13: update_preprint_dumps goes through every requested server in the
\* order given, also after the refresh of an earlier server raised: the
\* response has exactly one status line per requested server, in request
\* order, and its last line is the reminder that a restart is needed to use
\* the updated dumps.
C13_UpdateVisitsEveryServer ==
    (CallDone /\ request.name = "update_preprint_dumps") =>
        LET text == result.blocks[1].text
            servers == RequestedUpdates
        IN  /\ Len(result.blocks) = 1
            /\ Cardinality(StatusLines(text)) = Len(servers)
            /\ \A k \in 1..Len(servers) :
                  text[StatusLine(text, k)][2] = servers[k]
            /\ LineStr(text[Len(text)]) =
                 "Dump update process finished. Please restart to use updated dumps."

\* the refresh of chemrxiv raised, and biorxiv, asked for after it, was
\* refreshed and reported
C13_Witness ==
    /\ CallDone
    /\ request.name = "update_preprint_dumps"
    /\ RequestedUpdates = <<"chemrxiv", "biorxiv">>
    /\ outcomes[1].kind = "raise"
    /\ outcomes[2].kind = "ok"
    /\ Len(result.calls) = 2
    /\ result.blocks[1].text[3][2] = "chemrxiv"
    /\ result.blocks[1].text[3][4] = Cross
    /\ result.blocks[1].text[4][2] = "biorxiv"
    /\ result.blocks[1].text[4][4] = CheckMark

\* C14 as the specification states it: for each requested server,
\* update_preprint_dumps invokes the refresh collaborator for that server,
\* with start_date and end_date when either is given; the server's status
\* line says "Complete" only if a refresh for that server was invoked and
\* returned without error, and says "Error" otherwise.
C14_CompleteOnlyAfterRefresh ==
    (CallDone /\ request.name = "update_preprint_dumps") =>
        LET text == result.blocks[1].text
            servers == RequestedUpdates
            calls == result.calls
            dated == \/ ("start_date" \in request.arguments.has
                           /\ request.arguments.start_date # "")
                     \/ ("end_date" \in request.arguments.has
                           /\ request.arguments.end_date # "")
        IN  \A k \in 1..Len(servers) :
              LET invoked == {j \in 1..Len(calls) : calls[j].target = servers[k]}
                  refreshed == \E j \in invoked : outcomes[j].kind = "ok"
                  line == text[StatusLine(text, k)]
              IN  /\ invoked # {}
                  /\ \A j \in invoked :
                        dated <=> (\E kw \in calls[j].kw : kw[1] = "start_date")
                  /\ line[4] = (IF refreshed THEN CheckMark ELSE Cross)

(***************************************************************************)
(* What the handlers pass to their collaborators (C15, C16).               *)
(***************************************************************************)
\* the value the caller gave for a numeric key, or the default
GivenOr(key, default) ==
    IF key \in request.arguments.has THEN request.arguments[key] ELSE default

\* C15 as the specification states it: search_journal_impact passes
\* threshold (85 when absent) and min_impact (0 when absent) to the
\* collaborator, and the options hold max_impact exactly when the caller
\* supplied max_impact, with the caller's value, the value 0 included.
C15_ImpactOptions ==
    (CallDone /\ request.name = "search_journal_impact"
       /\ "journal_name" \in request.arguments.has) =>
        /\ Len(result.calls) = 1
        /\ LET options == result.calls[1].kw
           IN  /\ <<"threshold", ToString(GivenOr("threshold", 85))>> \in options
               /\ <<"min_impact", ToString(GivenOr("min_impact", 0))>> \in options
               /\ "max_impact" \in request.arguments.has
                    <=> (\E o \in options : o[1] = "max_impact")
               /\ "max_impact" \in request.arguments.has =>
                    <<"max_impact", ToString(request.arguments.max_impact)>>
                        \in options

\* C16 as the specification states it: each single-source search handler
\* invokes its collaborator with the caller's max_results, or with the
\* default when max_results is absent: 100 for search_pubmed and
\* search_arxiv, 50 for search_scholar.
C16_MaxResultsPassedOn ==
    (CallDone /\ request.name \in {"search_pubmed", "search_arxiv",
                                   "search_scholar"}
       /\ result.calls # <<>>) =>
        LET default == IF request.name = "search_scholar" THEN 50 ELSE 100
        IN  <<"max_results", ToString(GivenOr("max_results", default))>>
                \in result.calls[1].kw

(***************************************************************************)
(* The handlers' own boundary (C17).                                       *)
(***************************************************************************)
\* C17 as the specification states it: each of the eight handlers, awaited
\* directly and not through handle_call_tool, returns a result for every
\* arguments mapping and every collaborator outcome: a missing required
\* argument or a collaborator exception comes back as a text block and is
\* never raised past the handler.
C17_HandlersNeverRaise ==
    (CallDone /\ request.name \in Range(handle_list_tools)) =>
        /\ ~result.raised
        /\ Len(result.blocks) >= 1

(***************************************************************************)
(* The entry scripts' rebindings of sys.stdout (C18).                      *)
(***************************************************************************)
\* C18 as the specification states it: whichever script the process was
\* launched with (mcp_server, mcp_clean, start_mcp, mcp_server_wrapper),
\* the rebindings of sys.stdout end with sys.stdout bound to the process's
\* real output channel when main() opens the stdio transport, and that real
\* channel is the one the transport writes to.
C18_TransportGetsRealStdout ==
    pc \in {"idle", "pending", "done"} =>
        /\ stdout_bindings[Len(stdout_bindings)] = "stdout"
        /\ sys_stdout = "stdout"
        /\ transport_out = "stdout"

(***************************************************************************)
(* load_dumps (C19) and the servers search_preprint_servers queries (C20). *)
(***************************************************************************)
\* the file of a listing whose path comes first in reverse lexicographic
\* order: the one with the greatest stamp
NewestDump(listing) ==
    CHOOSE f \in Range(listing) : \A g \in Range(listing) : g.stamp <= f.stamp

\* C19: once the module is loaded, a preprint server (biorxiv, chemrxiv,
\* medrxiv) is in QUERY_FN_DICT if and only if at least one dump file
\* matches its name, the file that comes first in reverse lexicographic
\* order of the paths is not empty and the querier built from it did not
\* error; no other file counts, so an older dump that is not empty is not
\* used when the newest one is empty or unreadable.
C19_NewestDumpDecides ==
    pc # "boot" =>
        \A db \in {"biorxiv", "chemrxiv", "medrxiv"} :
            db \in QUERY_FN_DICT
              <=> /\ dumps[db] # <<>>
                  /\ NewestDump(dumps[db]).size # 0
                  /\ ~NewestDump(dumps[db]).errored

\* biorxiv has two dumps, listed oldest first: the newest is empty, the older
\* one is good, and biorxiv is not registered
C19_Witness ==
    /\ pc = "idle"
    /\ Len(dumps["biorxiv"]) = 2
    /\ dumps["biorxiv"][1].stamp < dumps["biorxiv"][2].stamp
    /\ dumps["biorxiv"][1].size # 0 /\ ~dumps["biorxiv"][1].errored
    /\ dumps["biorxiv"][2].size = 0
    /\ "biorxiv" \notin QUERY_FN_DICT

\* C20 as the specification states it: search_preprint_servers invokes a
\* search collaborator only for the server names its descriptor allows,
\* biorxiv, medrxiv and chemrxiv; for any other string in the servers
\* argument, arxiv and pubmed included, it invokes none.
C20_OnlyPreprintServersQueried ==
    (CallDone /\ request.name = "search_preprint_servers") =>
        \A j \in 1..Len(result.calls) :
            result.calls[j].target \in {"biorxiv", "medrxiv", "chemrxiv"}

(***************************************************************************)
(* The handlers on the event loop (C21).                                   *)
(***************************************************************************)
\* the tasks whose handler was entered and has not returned
InProgress == {i \in 1..Len(tasks) : tasks[i].at \in InProgressAts}

\* the staging files of the calls in progress
TempFilesInProgress == {tasks[i].temp_file : i \in InProgress}

\* C21: handler invocations never interleave.  A handler that was entered
\* keeps the event loop until it returns (it has no suspension point), so at
\* any moment at most one tool call is in progress, the temp files that
\* exist belong to that one call (temp files of two calls never exist at the
\* same time), and the results are produced in the order in which the
\* handlers were started.
C21_HandlersDoNotInterleave ==
    /\ Cardinality(InProgress) <= 1
    /\ \A i \in InProgress : running = i
    /\ temp_files \subseteq TempFilesInProgress
    /\ Cardinality(temp_files) <= 1
    /\ Len(finished) <= Len(started)
    /\ \A k \in 1..Len(finished) : finished[k] = started[k]

\* two calls were handed to the loop before either was served; the second
\* was served first and its collaborator raised; the first is now in its
\* handler with its staging file, and the third waits
C21_Witness ==
    /\ Len(tasks) = 3
    /\ started = <<2, 1>>
    /\ finished = <<2>>
    /\ tasks[2].at = "returned" /\ tasks[2].failed
    /\ tasks[1].at = "staged"
    /\ temp_files = {tasks[1].temp_file}
    /\ tasks[3].at = "queued"
    /\ running = 1

=============================================================================
